---- MODULE Spec2Model ----
(***************************************************************************)
(* A model of the storefront's cart store (client, the cart slice) and of  *)
(* the product review route (server, routes/products.js).                   *)
(*                                                                         *)
(* The cart store is a Redux slice: every reducer runs to completion on    *)
(* the UI thread, so each reducer is one action.  The review route is an    *)
(* async handler: it is cut at its awaits (findById, save), and requests    *)
(* interleave at those points.  The PUT and DELETE routes are cut the same  *)
(* way.  The order slice (client) dispatches thunks: the pending reducer    *)
(* runs at dispatch, the request is served by the order service, and the    *)
(* fulfilled or rejected reducer runs when the response arrives; responses  *)
(* of different requests arrive in any order.                               *)
(***************************************************************************)
EXTENDS Integers, Sequences, FiniteSets, TLC

\* ------------------------------------------------------------------ bounds

\* The largest quantity a cart line may reach in the model.
MaxQty == 2
\* The most negative quantity a cart line may reach in the model is -MaxNeg.
MaxNeg == 1

\* ---------------------------------------------------------------- the cart

VARIABLES
  items,    \* state.items: the cart lines, in insertion order
  total,    \* state.total
  storage,  \* localStorage's value under the key 'cart' (<<>>: no such key)
  last,     \* the reducer that ran last, its arguments, and whether setItem succeeded
  db,       \* the products collection: product id -> product document
  reqs,     \* the POST /:id/reviews requests, by slot
  overlap,  \* whether two review requests were ever in flight together
  calls,    \* the PUT /:id and DELETE /:id requests, by slot
  order,    \* the order slice's state (client)
  orderDb,  \* the order service's stored orders, newest first
  orderReqs \* the order thunks dispatched, by slot

cartVars == <<items, total, storage, last>>
reviewVars == <<db, reqs, overlap>>
orderVars == <<order, orderDb, orderReqs>>
vars == <<items, total, storage, last, db, reqs, overlap, calls, order, orderDb, orderReqs>>

\* What a cart reducer, a review request, a PUT or DELETE request, an order
\* thunk leaves alone.
exceptCart == <<db, reqs, overlap, calls, order, orderDb, orderReqs>>
exceptReviews == <<items, total, storage, last, calls, order, orderDb, orderReqs>>
exceptCalls == <<items, total, storage, last, reqs, overlap, order, orderDb, orderReqs>>
exceptOrders == <<items, total, storage, last, db, reqs, overlap, calls>>

\* Product documents as the server sends them (models/Product.js: price and
\* stock are numbers >= 0, stock defaults to 0, images may be empty).
Catalogue ==
  { [_id |-> "p1", name |-> "Lamp", price |-> 2,
     images |-> <<[url |-> "lamp.png"]>>, stock |-> 1],
    [_id |-> "p2", name |-> "Desk", price |-> 3,
     images |-> <<>>, stock |-> 0] }

ProductIds == {p._id : p \in Catalogue}

\* The quantity of an action's payload: present with a value, or absent.
QtyArgs == (0 - MaxNeg) .. MaxQty

Payloads ==
  [hasQuantity : {TRUE}, quantity : QtyArgs] \cup
  {[hasQuantity |-> FALSE, quantity |-> 0]}

Min(a, b) == IF a <= b THEN a ELSE b

\* ------------------------------------------------------------ JSON text
\* JSON text is a sequence of tokens; a token is a number, a string or a
\* bracket.  A cart line is written as its six values in key order.

Num(n) == [k |-> "num", n |-> n, s |-> ""]
Str(s) == [k |-> "str", n |-> 0, s |-> s]
Punct(c) == [k |-> c, n |-> 0, s |-> ""]

\* The number of values of a cart line (its keys _id, name, price, image,
\* quantity, stock).
ItemWidth == 6

StringifyItem(it) ==
  << Str(it._id), Str(it.name), Num(it.price), Str(it.image),
     Num(it.quantity), Num(it.stock) >>

RECURSIVE StringifyItems(_)
StringifyItems(its) ==
  IF its = <<>> THEN <<>>
  ELSE StringifyItem(Head(its)) \o StringifyItems(Tail(its))

\* JSON.stringify(cart) of a cart {items, total}.
JSON_stringify(cart) ==
  <<Punct("[")>> \o StringifyItems(cart.items) \o <<Punct("]"), Num(cart.total)>>

RECURSIVE ParseItems(_, _)
ParseItems(text, i) ==
  IF text[i].k = "]" THEN <<>>
  ELSE << [_id |-> text[i].s, name |-> text[i + 1].s, price |-> text[i + 2].n,
           image |-> text[i + 3].s, quantity |-> text[i + 4].n,
           stock |-> text[i + 5].n] >>
       \o ParseItems(text, i + ItemWidth)

\* Whether JSON.parse accepts the text (it throws a SyntaxError otherwise).
WellFormed(text) ==
  /\ Len(text) >= 3
  /\ (Len(text) - 3) % ItemWidth = 0
  /\ text[1].k = "["
  /\ text[Len(text) - 1].k = "]"
  /\ text[Len(text)].k = "num"
  /\ \A i \in 2 .. (Len(text) - 2) : text[i].k \in {"num", "str"}

\* JSON.parse(text) of a well-formed text.
JSON_parse(text) ==
  [items |-> ParseItems(text, 2), total |-> text[Len(text)].n]

EmptyCart == [items |-> <<>>, total |-> 0]

\* getCartFromStorage reading the items alone, the total left at its default.
getCartFromStorage_ItemsOnly(st) ==
  IF st = <<>> THEN EmptyCart
  ELSE IF WellFormed(st) THEN [items |-> JSON_parse(st).items, total |-> 0]
  ELSE EmptyCart

\* getCartFromStorage(): the parsed item, or the empty cart when the key is
\* missing or the text does not parse.
getCartFromStorage(st) ==
  IF st = <<>> THEN EmptyCart
  ELSE IF WellFormed(st) THEN JSON_parse(st)
  ELSE EmptyCart

\* saveCartToStorage with the setItem call left out.
saveCartToStorage_NoWrite(st, cart, ok) == st

\* saveCartToStorage(cart): the storage after the call; ok is whether
\* localStorage.setItem succeeded (a throw is caught and logged).
saveCartToStorage(st, cart, ok) ==
  IF ok THEN JSON_stringify(cart) ELSE st

\* ------------------------------------------------------------ reducers

RECURSIVE calculateTotal(_)
calculateTotal(its) ==
  IF its = <<>> THEN 0
  ELSE Head(its).price * Head(its).quantity + calculateTotal(Tail(its))

\* items.find(item => item._id === id): the index of the first match, 0 if none.
FindIndex(its, id) ==
  IF \E i \in 1 .. Len(its) : its[i]._id = id
  THEN CHOOSE i \in 1 .. Len(its) :
         /\ its[i]._id = id
         /\ \A j \in 1 .. (i - 1) : its[j]._id # id
  ELSE 0

\* items.filter(item => item._id !== id)
RECURSIVE FilterOut(_, _)
FilterOut(its, id) ==
  IF its = <<>> THEN <<>>
  ELSE IF Head(its)._id = id THEN FilterOut(Tail(its), id)
  ELSE <<Head(its)>> \o FilterOut(Tail(its), id)

\* product.images[0]?.url || ''
PrimaryImage(product) ==
  IF Len(product.images) >= 1 THEN product.images[1].url ELSE ""

\* addToCart without the find: a line is pushed whether or not one exists.
addToCartItems_AlwaysPush(its, product, quantity) ==
  Append(its, [_id |-> product._id, name |-> product.name,
               price |-> product.price, image |-> PrimaryImage(product),
               quantity |-> quantity, stock |-> product.stock])

\* The items after addToCart's if/else.
addToCartItems(its, product, quantity) ==
  LET i == FindIndex(its, product._id) IN
  IF i # 0
  THEN [its EXCEPT ![i].quantity = its[i].quantity + quantity]
  ELSE Append(its, [_id |-> product._id, name |-> product.name,
                    price |-> product.price, image |-> PrimaryImage(product),
                    quantity |-> quantity, stock |-> product.stock])

\* updateQuantity without the Math.min against the line's stock.
updateQuantityItems_NoClamp(its, productId, quantity) ==
  LET i == FindIndex(its, productId) IN
  IF quantity <= 0
  THEN FilterOut(its, productId)
  ELSE [its EXCEPT ![i].quantity = quantity]

\* updateQuantity testing quantity < 0 where the code tests quantity <= 0.
updateQuantityItems_ZeroKept(its, productId, quantity) ==
  LET i == FindIndex(its, productId) IN
  IF quantity < 0
  THEN FilterOut(its, productId)
  ELSE [its EXCEPT ![i].quantity = Min(quantity, its[i].stock)]

\* The items after updateQuantity's inner if/else, for an id that has a line.
updateQuantityItems(its, productId, quantity) ==
  LET i == FindIndex(its, productId) IN
  IF quantity <= 0
  THEN FilterOut(its, productId)
  ELSE [its EXCEPT ![i].quantity = Min(quantity, its[i].stock)]

InBounds(its) ==
  \A i \in 1 .. Len(its) : its[i].quantity \in (0 - MaxNeg) .. MaxQty

addToCart(product, payload, ok) ==
  LET quantity == IF payload.hasQuantity THEN payload.quantity ELSE 1
      its == addToCartItems(items, product, quantity)
  IN /\ InBounds(its)
     /\ items' = its
     /\ total' = calculateTotal(its)
     /\ storage' = saveCartToStorage(storage, [items |-> its, total |-> calculateTotal(its)], ok)
     /\ last' = [op |-> "addToCart", id |-> product._id, qty |-> quantity, wrote |-> ok]
     /\ UNCHANGED exceptCart

removeFromCart(productId, ok) ==
  LET its == FilterOut(items, productId) IN
  /\ items' = its
  /\ total' = calculateTotal(its)
  /\ storage' = saveCartToStorage(storage, [items |-> its, total |-> calculateTotal(its)], ok)
  /\ last' = [op |-> "removeFromCart", id |-> productId, qty |-> 0, wrote |-> ok]
  /\ UNCHANGED exceptCart

updateQuantity(productId, quantity, ok) ==
  /\ IF FindIndex(items, productId) # 0
     THEN LET its == updateQuantityItems(items, productId, quantity) IN
          /\ items' = its
          /\ total' = calculateTotal(its)
          /\ storage' = saveCartToStorage(storage, [items |-> its, total |-> calculateTotal(its)], ok)
          /\ last' = [op |-> "updateQuantity", id |-> productId, qty |-> quantity, wrote |-> ok]
     ELSE /\ UNCHANGED <<items, total, storage>>
          /\ last' = [op |-> "updateQuantity", id |-> productId, qty |-> quantity, wrote |-> FALSE]
  /\ UNCHANGED exceptCart

clearCart(ok) ==
  /\ items' = <<>>
  /\ total' = 0
  /\ storage' = saveCartToStorage(storage, EmptyCart, ok)
  /\ last' = [op |-> "clearCart", id |-> "", qty |-> 0, wrote |-> ok]
  /\ UNCHANGED exceptCart

\* A loadCart payload: a snapshot whose fields may be missing.
Snapshot(hasItems, its, hasTotal, tot) ==
  [hasItems |-> hasItems, items |-> IF hasItems THEN its ELSE <<>>,
   hasTotal |-> hasTotal, total |-> IF hasTotal THEN tot ELSE 0]

\* The snapshots the model dispatches: what storage holds, with each field
\* present or missing.
Snapshots ==
  LET c == getCartFromStorage(storage) IN
  { Snapshot(hi, c.items, ht, c.total) : hi \in BOOLEAN, ht \in BOOLEAN }

\* payload.items || [] and payload.total || 0 (a missing field is undefined,
\* and 0 is falsy too).
loadCartState(snapshot) ==
  [items |-> IF snapshot.hasItems THEN snapshot.items ELSE <<>>,
   total |-> IF snapshot.hasTotal /\ snapshot.total # 0 THEN snapshot.total ELSE 0]

loadCart(snapshot) ==
  /\ items' = loadCartState(snapshot).items
  /\ total' = loadCartState(snapshot).total
  /\ UNCHANGED storage
  /\ last' = [op |-> "loadCart", id |-> "", qty |-> 0, wrote |-> FALSE]
  /\ UNCHANGED exceptCart

\* The page is loaded again: createSlice evaluates initialState anew.
Startup ==
  /\ items' = getCartFromStorage(storage).items
  /\ total' = getCartFromStorage(storage).total
  /\ UNCHANGED storage
  /\ last' = [op |-> "startup", id |-> "", qty |-> 0, wrote |-> FALSE]
  /\ UNCHANGED exceptCart

\* The first page load, with nothing stored.
InitCart ==
  /\ storage = <<>>
  /\ items = getCartFromStorage(<<>>).items
  /\ total = getCartFromStorage(<<>>).total
  /\ last = [op |-> "startup", id |-> "", qty |-> 0, wrote |-> FALSE]

\* The four reducers that mutate and persist.
NextCartOps ==
  \/ \E product \in Catalogue, payload \in Payloads, ok \in BOOLEAN :
       addToCart(product, payload, ok)
  \/ \E productId \in ProductIds, ok \in BOOLEAN : removeFromCart(productId, ok)
  \/ \E productId \in ProductIds, quantity \in QtyArgs, ok \in BOOLEAN :
       updateQuantity(productId, quantity, ok)
  \/ \E ok \in BOOLEAN : clearCart(ok)

NextCart ==
  \/ NextCartOps
  \/ \E snapshot \in Snapshots : loadCart(snapshot)
  \/ Startup

\* ------------------------------------------------- the review route (server)

\* The review requests of a run.
MaxReqs == 3
\* The PUT and DELETE requests of a run.
MaxCalls == 2

CallIds == 1 .. MaxCalls

ReqIds == 1 .. MaxReqs

\* body('rating').isInt({ min: 1, max: 5 })
MinRating == 1
MaxRating == 5
\* body('comment').trim().isLength({ min: 10 })
MinComment == 10

Users == {"u1", "u2"}
UserName(u) == IF u = "u1" THEN "Ann" ELSE "Bob"

\* The product in the collection, and an id no product has.
DbIds == {"p1"}
RequestIds == {"p1", "p0"}

\* The ratings and (trimmed) comment lengths a request may carry.
RatingArgs == {MinRating - 1, 2, MaxRating, MaxRating + 1}
CommentArgs == {MinComment - 1, MinComment}

GCD(a, b) == CHOOSE d \in 1 .. (IF a > b THEN a ELSE b) :
  /\ a % d = 0
  /\ b % d = 0
  /\ \A e \in (d + 1) .. (IF a > b THEN a ELSE b) : ~(a % e = 0 /\ b % e = 0)

\* The quotient n / d (d > 0) as a fraction in lowest terms.
Quotient(n, d) ==
  IF n = 0 THEN [num |-> 0, den |-> 1]
  ELSE [num |-> n \div GCD(n, d), den |-> d \div GCD(n, d)]

\* reviews.reduce((acc, item) => item.rating + acc, 0)
RECURSIVE SumRatings(_)
SumRatings(reviews) ==
  IF reviews = <<>> THEN 0
  ELSE Head(reviews).rating + SumRatings(Tail(reviews))

\* A new product document (the schema's defaults: ratings 0, numOfReviews 0),
\* created by user u1 at price 2.
NewProduct ==
  [user |-> "u1", price |-> 2,
   reviews |-> <<>>, numOfReviews |-> 0, ratings |-> Quotient(0, 1)]

\* express-validator's checks of the request body.
ValidBody(rating, commentLen) ==
  /\ rating >= MinRating
  /\ rating <= MaxRating
  /\ commentLen >= MinComment

\* The duplicate check comparing an ObjectId with a string: it never matches.
alreadyReviewed_NeverMatches(product, user) == FALSE

\* product.reviews.find(review => review.user.toString() === req.user.id)
alreadyReviewed(product, user) ==
  \E i \in 1 .. Len(product.reviews) : product.reviews[i].user = user

\* The review object the handler builds.
Review(user, rating, commentLen) ==
  [user |-> user, name |-> UserName(user), rating |-> rating, comment |-> commentLen]

\* The handler's document after push and the two assignments.
pushReview(product, review) ==
  LET reviews == Append(product.reviews, review) IN
  [product EXCEPT !.reviews = reviews,
                  !.numOfReviews = Len(reviews),
                  !.ratings = Quotient(SumRatings(reviews), Len(reviews))]

\* product.save() of a document whose reviews array was pushed to and whose
\* numOfReviews and ratings were assigned: the stored document gets the pushed
\* review appended to its array, and the two fields set.
saveProduct(stored, local, review) ==
  [stored EXCEPT !.reviews = Append(stored.reviews, review),
                 !.numOfReviews = local.numOfReviews,
                 !.ratings = local.ratings]

\* A request slot before its request is sent.
IdleReq == [pc |-> "idle"]

\* A request in flight: the request (user, product id, body), the document
\* findById returned, and the requests answered 201 before it was sent.
Found(user, id, rating, commentLen, local, after) ==
  [pc |-> "found", user |-> user, id |-> id, rating |-> rating,
   comment |-> commentLen, local |-> local, after |-> after]

\* The handler has responded: its locals are gone.
Respond(user, id, after, code, message) ==
  [pc |-> "done", user |-> user, id |-> id, after |-> after,
   status |-> code, message |-> message]

Responded(r, code) == reqs[r].pc = "done" /\ reqs[r].status = code

\* The handler up to the resolution of findById: validation, then the read.
postReview(r, user, id, rating, commentLen) ==
  /\ reqs[r].pc = "idle"
  /\ \A q \in 1 .. (r - 1) : reqs[q].pc # "idle"
  /\ LET after == {q \in ReqIds : Responded(q, 201)}
     IN reqs' = [reqs EXCEPT ![r] =
          IF ~ValidBody(rating, commentLen)
          THEN Respond(user, id, after, 400, "errors")
          ELSE IF id \notin DOMAIN db
          THEN Respond(user, id, after, 404, "Product not found")
          ELSE Found(user, id, rating, commentLen, db[id], after)]
  /\ overlap' = (overlap \/ \E q \in ReqIds : reqs[q].pc = "found")
  /\ UNCHANGED db
  /\ UNCHANGED exceptReviews

\* The handler from the duplicate check to the response: the check, the push,
\* the two assignments, the save and the 201.
saveReview(r) ==
  /\ reqs[r].pc = "found"
  /\ LET req == reqs[r]
         review == Review(req.user, req.rating, req.comment)
         local == pushReview(req.local, review)
     IN IF alreadyReviewed(req.local, req.user)
        THEN /\ reqs' = [reqs EXCEPT ![r] =
                    Respond(req.user, req.id, req.after, 400, "Product already reviewed")]
             /\ UNCHANGED db
        ELSE IF req.id \notin DOMAIN db
        THEN \* The product was removed after findById: the save updates no
             \* document, and is answered 201, or 500 when save() throws.
             /\ \E code \in {201, 500} :
                  reqs' = [reqs EXCEPT ![r] =
                    Respond(req.user, req.id, req.after, code,
                            IF code = 201 THEN "Review added" ELSE "Server error")]
             /\ UNCHANGED db
        ELSE /\ db' = [db EXCEPT ![req.id] = saveProduct(db[req.id], local, review)]
             /\ reqs' = [reqs EXCEPT ![r] =
                    Respond(req.user, req.id, req.after, 201, "Review added")]
  /\ UNCHANGED overlap
  /\ UNCHANGED exceptReviews

InitReviews ==
  /\ db = [id \in DbIds |-> NewProduct]
  /\ reqs = [r \in ReqIds |-> IdleReq]
  /\ overlap = FALSE
  /\ calls = [c \in CallIds |-> IdleReq]

NextReviews ==
  \/ \E r \in ReqIds, user \in Users, id \in RequestIds,
        rating \in RatingArgs, commentLen \in CommentArgs :
       postReview(r, user, id, rating, commentLen)
  \/ \E r \in ReqIds : saveReview(r)

\* --------------------------------------- the PUT and DELETE routes (server)

\* req.user as the auth middleware sets it: an admin, the product's creator
\* and another user.
Callers ==
  { [id |-> "a1", role |-> "admin"],
    [id |-> "u1", role |-> "user"],
    [id |-> "u2", role |-> "user"] }

\* The bodies of the PUT requests: a price, a negative price (which the
\* schema's validators refuse), a reviews array, the two review statistics,
\* and another owner.
Bodies ==
  { [price |-> 5],
    [price |-> 0 - 1],
    [reviews |-> <<>>],
    [numOfReviews |-> 0, ratings |-> Quotient(MaxRating, 1)],
    [user |-> "u2"] }

\* runValidators: true (the schema's min: [0, 'Price cannot be negative']).
ValidUpdate(body) == "price" \in DOMAIN body => body.price >= 0

\* The document after findByIdAndUpdate(id, body): the body's fields are set,
\* the others kept.
updateProduct(product, body) ==
  [f \in DOMAIN product |-> IF f \in DOMAIN body THEN body[f] ELSE product[f]]

\* The authorization check left out: every caller passes.
authorized_Everyone(caller, owner) == TRUE

\* req.user.role !== 'admin' && product.user.toString() !== req.user.id is
\* false; owner is product.user of the document findById returned.
authorized(caller, owner) ==
  caller.role = "admin" \/ owner = caller.id

\* A PUT or DELETE request whose findById has resolved: the request, and the
\* user field of the document read (the one field the handler reads of it).
Call(kind, caller, id, body, owner) ==
  [pc |-> "found", kind |-> kind, caller |-> caller, id |-> id, body |-> body,
   owner |-> owner]

\* A PUT or DELETE request that was answered.
Answer(kind, id, code) ==
  [pc |-> "done", kind |-> kind, id |-> id, status |-> code]

\* Either handler up to the resolution of findById: the read, or the 404.
findProduct(c, kind, caller, id, body) ==
  /\ calls[c].pc = "idle"
  /\ \A q \in 1 .. (c - 1) : calls[q].pc # "idle"
  /\ calls' = [calls EXCEPT ![c] =
       IF id \notin DOMAIN db
       THEN Answer(kind, id, 404)
       ELSE Call(kind, caller, id, body, db[id].user)]
  /\ UNCHANGED db
  /\ UNCHANGED exceptCalls

\* PUT /:id from the authorization check to the response.
putProduct(c) ==
  /\ calls[c].pc = "found"
  /\ calls[c].kind = "put"
  /\ LET call == calls[c] IN
     IF ~authorized(call.caller, call.owner)
     THEN /\ calls' = [calls EXCEPT ![c] = Answer("put", call.id, 401)]
          /\ UNCHANGED db
     ELSE IF ~ValidUpdate(call.body)
     THEN /\ calls' = [calls EXCEPT ![c] = Answer("put", call.id, 500)]
          /\ UNCHANGED db
     ELSE IF call.id \notin DOMAIN db
     THEN \* findByIdAndUpdate finds no document: res.json(null).
          /\ calls' = [calls EXCEPT ![c] = Answer("put", call.id, 200)]
          /\ UNCHANGED db
     ELSE /\ db' = [db EXCEPT ![call.id] = updateProduct(db[call.id], call.body)]
          /\ calls' = [calls EXCEPT ![c] = Answer("put", call.id, 200)]
  /\ UNCHANGED exceptCalls

\* DELETE /:id from the authorization check to the response.
deleteProduct(c) ==
  /\ calls[c].pc = "found"
  /\ calls[c].kind = "delete"
  /\ LET call == calls[c] IN
     IF ~authorized(call.caller, call.owner)
     THEN /\ calls' = [calls EXCEPT ![c] = Answer("delete", call.id, 401)]
          /\ UNCHANGED db
     ELSE /\ db' = [id \in DOMAIN db \ {call.id} |-> db[id]]
          /\ calls' = [calls EXCEPT ![c] = Answer("delete", call.id, 200)]
  /\ UNCHANGED exceptCalls

\* The review requests sent beside PUT and DELETE requests: valid ones, two
\* fewer than in a run of review requests alone.
ProductReqIds == 1 .. (MaxReqs - 2)

NextProductReviews ==
  \/ \E r \in ProductReqIds, user \in Users, id \in DbIds :
       postReview(r, user, id, MaxRating, MinComment)
  \/ \E r \in ReqIds : saveReview(r)

NextCalls ==
  \/ \E c \in CallIds, caller \in Callers, id \in RequestIds, body \in Bodies :
       findProduct(c, "put", caller, id, body)
  \/ \E c \in CallIds, caller \in Callers, id \in RequestIds :
       findProduct(c, "delete", caller, id, [price |-> 0])
  \/ \E c \in CallIds : putProduct(c)
  \/ \E c \in CallIds : deleteProduct(c)

NextProducts == NextProductReviews \/ NextCalls

\* ------------------------------------------------ the order slice (client)

\* The order thunks in flight together, at most.
MaxOrderReqs == 3

OrderReqIds == 1 .. MaxOrderReqs

\* The cart snapshots submitted: line quantities (none: an empty cart).
OrderDataArgs == { <<>>, <<1>> }
\* The order ids asked for: the first order's (missing until it is created).
OrderIdArgs == { 1 }
\* The statuses asked for.
StatusArgs == { "processing", "shipped" }

\* state.error = null
NoError == "null"
\* state.currentOrder = null; an order held is <<order>>
NoOrder == << >>

initialState ==
  [orders |-> <<>>, currentOrder |-> NoOrder, loading |-> FALSE,
   error |-> NoError, orderSuccess |-> FALSE]

IdleThunk == [pc |-> "idle"]

\* Slot r is free, and the slots before it are used: slots are taken in order.
Free(r) ==
  /\ orderReqs[r].pc = "idle"
  /\ r > 1 => orderReqs[r - 1].pc # "idle"

\* The request of slot r is on its way to the server.
Sent(r, kind) == orderReqs[r].pc = "sent" /\ orderReqs[r].kind = kind

\* return response.data
FulfillOrder(r, kind, payload) ==
  orderReqs' = [orderReqs EXCEPT ![r] = [pc |-> "fulfilled", kind |-> kind, payload |-> payload]]

FulfillList(r, kind, list) ==
  orderReqs' = [orderReqs EXCEPT ![r] = [pc |-> "fulfilled", kind |-> kind, list |-> list]]

\* return rejectWithValue(error.response?.data?.message || 'Failed to ...')
Reject(r, kind, message) ==
  orderReqs' = [orderReqs EXCEPT ![r] = [pc |-> "rejected", kind |-> kind, message |-> message]]

\* The response of slot r has arrived, and its reducer is about to run.
Arrived(r, kind, outcome) == orderReqs[r].pc = outcome /\ orderReqs[r].kind = kind

Settle(r) == orderReqs' = [orderReqs EXCEPT ![r] = [pc |-> "done"]]

\* state.orders.findIndex(o => o._id === id), 0 for -1
FindOrderIndex(orders, id) ==
  IF \E i \in 1 .. Len(orders) : orders[i]._id = id
  THEN CHOOSE i \in 1 .. Len(orders) :
         /\ orders[i]._id = id
         /\ \A j \in 1 .. (i - 1) : orders[j]._id # id
  ELSE 0

\* dispatch(createOrder(orderData)): createOrder.pending, then axios.post
createOrder(r, orderData) ==
  /\ Free(r)
  /\ order' = [order EXCEPT !.loading = TRUE, !.error = NoError, !.orderSuccess = FALSE]
  /\ orderReqs' = [orderReqs EXCEPT ![r] = [pc |-> "sent", kind |-> "createOrder", orderData |-> orderData]]
  /\ UNCHANGED orderDb
  /\ UNCHANGED exceptOrders

createOrder_fulfilled(r) ==
  /\ Arrived(r, "createOrder", "fulfilled")
  /\ order' = [order EXCEPT !.loading = FALSE,
                            !.currentOrder = <<orderReqs[r].payload>>,
                            !.orderSuccess = TRUE,
                            !.orders = <<orderReqs[r].payload>> \o @]
  /\ Settle(r)
  /\ UNCHANGED orderDb
  /\ UNCHANGED exceptOrders

createOrder_rejected(r) ==
  /\ Arrived(r, "createOrder", "rejected")
  /\ order' = [order EXCEPT !.loading = FALSE, !.error = orderReqs[r].message,
                            !.orderSuccess = FALSE]
  /\ Settle(r)
  /\ UNCHANGED orderDb
  /\ UNCHANGED exceptOrders

\* dispatch(fetchUserOrders()): fetchUserOrders.pending, then axios.get
fetchUserOrders(r) ==
  /\ Free(r)
  /\ order' = [order EXCEPT !.loading = TRUE, !.error = NoError]
  /\ orderReqs' = [orderReqs EXCEPT ![r] = [pc |-> "sent", kind |-> "fetchUserOrders"]]
  /\ UNCHANGED orderDb
  /\ UNCHANGED exceptOrders

fetchUserOrders_fulfilled(r) ==
  /\ Arrived(r, "fetchUserOrders", "fulfilled")
  /\ order' = [order EXCEPT !.loading = FALSE, !.orders = orderReqs[r].list]
  /\ Settle(r)
  /\ UNCHANGED orderDb
  /\ UNCHANGED exceptOrders

fetchUserOrders_rejected(r) ==
  /\ Arrived(r, "fetchUserOrders", "rejected")
  /\ order' = [order EXCEPT !.loading = FALSE, !.error = orderReqs[r].message]
  /\ Settle(r)
  /\ UNCHANGED orderDb
  /\ UNCHANGED exceptOrders

\* dispatch(fetchOrderById(orderId)): fetchOrderById.pending, then axios.get
fetchOrderById(r, orderId) ==
  /\ Free(r)
  /\ order' = [order EXCEPT !.loading = TRUE, !.error = NoError]
  /\ orderReqs' = [orderReqs EXCEPT ![r] = [pc |-> "sent", kind |-> "fetchOrderById", orderId |-> orderId]]
  /\ UNCHANGED orderDb
  /\ UNCHANGED exceptOrders

fetchOrderById_fulfilled(r) ==
  /\ Arrived(r, "fetchOrderById", "fulfilled")
  /\ order' = [order EXCEPT !.loading = FALSE, !.currentOrder = <<orderReqs[r].payload>>]
  /\ Settle(r)
  /\ UNCHANGED orderDb
  /\ UNCHANGED exceptOrders

fetchOrderById_rejected(r) ==
  /\ Arrived(r, "fetchOrderById", "rejected")
  /\ order' = [order EXCEPT !.loading = FALSE, !.error = orderReqs[r].message]
  /\ Settle(r)
  /\ UNCHANGED orderDb
  /\ UNCHANGED exceptOrders

\* dispatch(updateOrderStatus({orderId, status})): updateOrderStatus.pending,
\* then axios.put
updateOrderStatus(r, orderId, status) ==
  /\ Free(r)
  /\ order' = [order EXCEPT !.loading = TRUE, !.error = NoError]
  /\ orderReqs' = [orderReqs EXCEPT ![r] = [pc |-> "sent", kind |-> "updateOrderStatus",
                                            orderId |-> orderId, status |-> status]]
  /\ UNCHANGED orderDb
  /\ UNCHANGED exceptOrders

updateOrderStatus_fulfilled(r) ==
  /\ Arrived(r, "updateOrderStatus", "fulfilled")
  /\ LET payload == orderReqs[r].payload
         index == FindOrderIndex(order.orders, payload._id)
     IN order' =
          [order EXCEPT
             !.loading = FALSE,
             !.orders = IF index # 0 THEN [@ EXCEPT ![index] = payload] ELSE @,
             !.currentOrder = IF @ # NoOrder /\ @[1]._id = payload._id
                              THEN <<payload>> ELSE @]
  /\ Settle(r)
  /\ UNCHANGED orderDb
  /\ UNCHANGED exceptOrders

updateOrderStatus_rejected(r) ==
  /\ Arrived(r, "updateOrderStatus", "rejected")
  /\ order' = [order EXCEPT !.loading = FALSE, !.error = orderReqs[r].message]
  /\ Settle(r)
  /\ UNCHANGED orderDb
  /\ UNCHANGED exceptOrders

clearError ==
  /\ order' = [order EXCEPT !.error = NoError]
  /\ UNCHANGED <<orderDb, orderReqs>>
  /\ UNCHANGED exceptOrders

clearOrderSuccess ==
  /\ order' = [order EXCEPT !.orderSuccess = FALSE]
  /\ UNCHANGED <<orderDb, orderReqs>>
  /\ UNCHANGED exceptOrders

clearCurrentOrder ==
  /\ order' = [order EXCEPT !.currentOrder = NoOrder]
  /\ UNCHANGED <<orderDb, orderReqs>>
  /\ UNCHANGED exceptOrders

\* The message a thunk rejects with when the error carries none.
FailureMessage(kind) ==
  CASE kind = "createOrder" -> "Failed to create order"
    [] kind = "fetchUserOrders" -> "Failed to fetch orders"
    [] kind = "fetchOrderById" -> "Failed to fetch order"
    [] kind = "updateOrderStatus" -> "Failed to update order status"

\* The request fails without an answer of the server: error.response is
\* undefined, and the thunk rejects with its own message.
requestFails(r) ==
  /\ orderReqs[r].pc = "sent"
  /\ Reject(r, orderReqs[r].kind, FailureMessage(orderReqs[r].kind))
  /\ UNCHANGED <<order, orderDb>>
  /\ UNCHANGED exceptOrders

\* ----------------------------------------------- the order service (server)

\* Every line of the cart snapshot has a positive quantity, and there is one.
ValidOrder(orderData) ==
  /\ Len(orderData) > 0
  /\ \A i \in 1 .. Len(orderData) : orderData[i] > 0

HasOrder(id) == \E i \in 1 .. Len(orderDb) : orderDb[i]._id = id

StoredOrder(id) == orderDb[CHOOSE i \in 1 .. Len(orderDb) : orderDb[i]._id = id]

\* createOrder(cart snapshot, ownerId)
serveCreateOrder(r) ==
  /\ Sent(r, "createOrder")
  /\ IF ValidOrder(orderReqs[r].orderData)
     THEN LET created == [_id |-> Len(orderDb) + 1, status |-> "pending"]
          IN /\ orderDb' = <<created>> \o orderDb
             /\ FulfillOrder(r, "createOrder", created)
     ELSE /\ Reject(r, "createOrder", "ValidationError")
          /\ UNCHANGED orderDb
  /\ UNCHANGED order
  /\ UNCHANGED exceptOrders

\* listOrders(ownerId)
listOrders(r) ==
  /\ Sent(r, "fetchUserOrders")
  /\ FulfillList(r, "fetchUserOrders", orderDb)
  /\ UNCHANGED <<order, orderDb>>
  /\ UNCHANGED exceptOrders

\* getOrder(orderId, callerId, callerRole), the caller being the owner
getOrder(r) ==
  /\ Sent(r, "fetchOrderById")
  /\ IF HasOrder(orderReqs[r].orderId)
     THEN FulfillOrder(r, "fetchOrderById", StoredOrder(orderReqs[r].orderId))
     ELSE Reject(r, "fetchOrderById", "NotFound")
  /\ UNCHANGED <<order, orderDb>>
  /\ UNCHANGED exceptOrders

\* updateStatus(orderId, newStatus, callerId, callerRole), the caller being
\* the owner
updateStatus(r) ==
  /\ Sent(r, "updateOrderStatus")
  /\ IF HasOrder(orderReqs[r].orderId)
     THEN LET updated == [StoredOrder(orderReqs[r].orderId) EXCEPT !.status = orderReqs[r].status]
          IN /\ orderDb' = [i \in 1 .. Len(orderDb) |->
                              IF orderDb[i]._id = updated._id THEN updated ELSE orderDb[i]]
             /\ FulfillOrder(r, "updateOrderStatus", updated)
     ELSE /\ Reject(r, "updateOrderStatus", "NotFound")
          /\ UNCHANGED orderDb
  /\ UNCHANGED order
  /\ UNCHANGED exceptOrders

InitOrders ==
  /\ order = initialState
  /\ orderDb = <<>>
  /\ orderReqs = [r \in OrderReqIds |-> IdleThunk]

NextOrders ==
  \/ \E r \in OrderReqIds, orderData \in OrderDataArgs : createOrder(r, orderData)
  \/ \E r \in OrderReqIds : fetchUserOrders(r)
  \/ \E r \in OrderReqIds, orderId \in OrderIdArgs : fetchOrderById(r, orderId)
  \/ \E r \in OrderReqIds, orderId \in OrderIdArgs, status \in StatusArgs :
       updateOrderStatus(r, orderId, status)
  \/ \E r \in OrderReqIds :
       \/ serveCreateOrder(r)
       \/ listOrders(r)
       \/ getOrder(r)
       \/ updateStatus(r)
       \/ requestFails(r)
       \/ createOrder_fulfilled(r)
       \/ createOrder_rejected(r)
       \/ fetchUserOrders_fulfilled(r)
       \/ fetchUserOrders_rejected(r)
       \/ fetchOrderById_fulfilled(r)
       \/ fetchOrderById_rejected(r)
       \/ updateOrderStatus_fulfilled(r)
       \/ updateOrderStatus_rejected(r)
  \/ clearError
  \/ clearOrderSuccess
  \/ clearCurrentOrder

\* The first order as the service created it.
FirstOrder == [_id |-> 1, status |-> "pending"]

\* The state once the first order was created and its response reduced
\* (createOrder, serveCreateOrder, createOrder_fulfilled of slot 1).
InitOrderView ==
  /\ order = [initialState EXCEPT !.orders = <<FirstOrder>>,
                                  !.currentOrder = <<FirstOrder>>,
                                  !.orderSuccess = TRUE]
  /\ orderDb = <<FirstOrder>>
  /\ orderReqs = [r \in OrderReqIds |-> IF r = 1 THEN [pc |-> "done"] ELSE IdleThunk]

\* The status updates and the fetches of the orders the client holds.
NextOrderView ==
  \/ \E r \in OrderReqIds : fetchUserOrders(r)
  \/ \E r \in OrderReqIds, orderId \in OrderIdArgs : fetchOrderById(r, orderId)
  \/ \E r \in OrderReqIds, orderId \in OrderIdArgs, status \in StatusArgs :
       updateOrderStatus(r, orderId, status)
  \/ \E r \in OrderReqIds :
       \/ listOrders(r)
       \/ getOrder(r)
       \/ updateStatus(r)
       \/ requestFails(r)
       \/ fetchUserOrders_fulfilled(r)
       \/ fetchUserOrders_rejected(r)
       \/ fetchOrderById_fulfilled(r)
       \/ fetchOrderById_rejected(r)
       \/ updateOrderStatus_fulfilled(r)
       \/ updateOrderStatus_rejected(r)

\* ---------------------------------------------------------- specifications

Init == InitCart /\ InitReviews /\ InitOrders

InitView == InitCart /\ InitReviews /\ InitOrderView

Next == NextCart \/ NextReviews \/ NextCalls \/ NextOrders

\* The whole system.
Spec == Init /\ [][Next]_vars

\* The cart store alone: every reducer, and the startup read.
CartSpec == Init /\ [][NextCart]_vars

\* The cart store from the empty cart under its four mutating reducers.
CartOpsSpec == Init /\ [][NextCartOps]_vars

\* The review route alone.
ReviewSpec == Init /\ [][NextReviews]_vars

\* The products API: the review route with the PUT and DELETE routes.
ProductSpec == Init /\ [][NextProducts]_vars

\* The order slice with the order service behind it.
OrderSpec == Init /\ [][NextOrders]_vars

\* The order slice once the first order is created, under status updates and
\* fetches.
OrderViewSpec == InitView /\ [][NextOrderView]_vars

\* ------------------------------------------------------------------ claims

Cart == [items |-> items, total |-> total]

HasLine(its, id) == \E i \in 1 .. Len(its) : its[i]._id = id

\* The line of id in its (the first, as find returns it).
LineOf(its, id) == its[FindIndex(its, id)]

\* its with its i-th element left out.
Without(its, i) ==
  [j \in 1 .. (Len(its) - 1) |-> IF j < i THEN its[j] ELSE its[j + 1]]

\* C1: in every state reachable by addToCart, removeFromCart, updateQuantity,
\* clearCart and loadCart, the total is the sum of price x quantity over the
\* lines of the cart.
C1_TotalIsSumOfLines ==
  total = calculateTotal(items)

\* C2: from the empty cart, under addToCart, removeFromCart, updateQuantity
\* and clearCart, no line's quantity exceeds the stock captured on the line.
C2_QuantityAtMostStock ==
  \A i \in 1 .. Len(items) : items[i].quantity <= items[i].stock

\* C3: from the empty cart, under addToCart, removeFromCart, updateQuantity
\* and clearCart, every line of the cart has a quantity of at least 1.
C3_QuantityAtLeastOne ==
  \A i \in 1 .. Len(items) : items[i].quantity >= 1

\* C4: updateQuantity(productId, q) with q > 0 on a product that has a line
\* sets that line's quantity to min(q, stock), which is at most its stock, and
\* changes nothing else of that line nor any other line.
C4_UpdateQuantityClamps ==
  [][ (last'.op = "updateQuantity" /\ last'.qty > 0 /\ HasLine(items, last'.id))
      => LET i == FindIndex(items, last'.id) IN
         /\ Len(items') = Len(items)
         /\ items'[i].quantity = Min(last'.qty, items[i].stock)
         /\ items'[i].quantity <= items'[i].stock
         /\ items'[i] = [items[i] EXCEPT !.quantity = items'[i].quantity]
         /\ \A j \in 1 .. Len(items) : j # i => items'[j] = items[j] ]_vars

\* C4's case: an update asked for more than the stock of a line, the line
\* holds exactly its stock, and the cart has another line.
C4_Witness ==
  /\ last.op = "updateQuantity"
  /\ HasLine(items, last.id)
  /\ last.qty > LineOf(items, last.id).stock
  /\ LineOf(items, last.id).stock > 0
  /\ LineOf(items, last.id).quantity = LineOf(items, last.id).stock
  /\ Len(items) = 2

\* C5: updateQuantity(productId, q) with q <= 0 on a product that has a line
\* removes that line and keeps every other line, in the same order; on a
\* product that has no line it changes neither the lines, nor the total, nor
\* the stored cart.
C5_UpdateQuantityRemoves ==
  [][ last'.op = "updateQuantity"
      => IF HasLine(items, last'.id)
         THEN last'.qty <= 0
              => /\ items' = Without(items, FindIndex(items, last'.id))
                 /\ ~HasLine(items', last'.id)
         ELSE /\ items' = items
              /\ total' = total
              /\ storage' = storage ]_vars

\* C5's case: an update to a negative quantity has removed the first of two
\* lines.
C5_Witness ==
  /\ last.op = "updateQuantity"
  /\ last.qty < 0
  /\ last.wrote
  /\ last.id = "p1"
  /\ Len(items) = 1
  /\ items[1]._id = "p2"

\* C5's other case: an update of a product that has no line, in a cart that
\* differs from the stored one.
C5_WitnessNoLine ==
  /\ last.op = "updateQuantity"
  /\ ~HasLine(items, last.id)
  /\ last.qty > 0
  /\ items # <<>>

\* C6: removeFromCart(productId) on a product that has no line leaves the
\* lines and the total as they were.
C6_RemoveAbsentIsNoOp ==
  [][ (last'.op = "removeFromCart" /\ ~HasLine(items, last'.id))
      => (items' = items /\ total' = total) ]_vars

\* C7: a cart that is written to storage and read back, by the startup read
\* or by loadCart of the stored snapshot, has the same lines in the same order
\* and the same total; and after a successful write the stored cart is the
\* current one.
C7_RoundTrip ==
  LET stored == JSON_stringify(Cart)
      read == getCartFromStorage(stored)
  IN /\ read = Cart
     /\ loadCartState(Snapshot(TRUE, read.items, TRUE, read.total)) = Cart
     /\ last.wrote => getCartFromStorage(storage) = Cart

\* C7's case: a cart of two lines, one over its stock, was written.
C7_Witness ==
  /\ last.wrote
  /\ Len(items) = 2
  /\ total > 0
  /\ \E i \in 1 .. Len(items) : items[i].quantity > items[i].stock

\* Whether the step is one of a reducer that persists: addToCart,
\* removeFromCart, clearCart, or updateQuantity on a product that has a line.
Persisting ==
  \/ last'.op \in {"addToCart", "removeFromCart", "clearCart"}
  \/ last'.op = "updateQuantity" /\ HasLine(items, last'.id)

\* What the reducer of the step does to the cart in memory.
Mutated ==
  /\ total' = calculateTotal(items')
  /\ last'.op = "addToCart" =>
       /\ HasLine(items', last'.id)
       /\ LineOf(items', last'.id).quantity =
            (IF HasLine(items, last'.id)
             THEN LineOf(items, last'.id).quantity ELSE 0) + last'.qty
  /\ last'.op = "removeFromCart" => ~HasLine(items', last'.id)
  /\ last'.op = "clearCart" => items' = <<>>
  /\ last'.op = "updateQuantity" =>
       IF last'.qty <= 0 THEN ~HasLine(items', last'.id)
       ELSE LineOf(items', last'.id).quantity =
              Min(last'.qty, LineOf(items, last'.id).stock)

\* C8: a persisting reducer whose write succeeds leaves the whole current
\* cart {items, total} in storage; when the write fails the storage is as it
\* was and the cart in memory is mutated all the same; loadCart never writes.
C8_PersistAfterMutation ==
  [][ /\ Persisting =>
           /\ Mutated
           /\ IF last'.wrote
              THEN WellFormed(storage') /\ JSON_parse(storage') = Cart'
              ELSE storage' = storage
      /\ last'.op = "loadCart" => storage' = storage ]_vars

\* C8's case: addToCart's write failed, the line is in the cart, and the
\* stored cart is not the one in memory.
C8_Witness ==
  /\ last.op = "addToCart"
  /\ ~last.wrote
  /\ HasLine(items, last.id)
  /\ storage # <<>>
  /\ getCartFromStorage(storage) # Cart

\* C8's other case: loadCart has put a snapshot in memory that is not what
\* storage holds.
C8_WitnessLoad ==
  /\ last.op = "loadCart"
  /\ storage # <<>>
  /\ getCartFromStorage(storage) # Cart

\* The number of reviews by user among reviews.
ReviewsBy(reviews, user) ==
  Cardinality({i \in 1 .. Len(reviews) : reviews[i].user = user})

\* Request r is answered in this step.
Answers(r) == reqs[r].pc = "found" /\ reqs'[r].pc = "done"

\* Request r, with a valid body, was sent after the same user's request q on
\* the same product had been answered 201.
SecondCall(r, q) ==
  /\ q \in reqs[r].after
  /\ reqs[q].user = reqs[r].user
  /\ reqs[q].id = reqs[r].id

\* C9: when a user whose review of a product was accepted (201) sends a
\* second valid review of it, the second request is answered 400 as a
\* duplicate and the product is left as it was; when no two requests were in
\* flight together, the product then holds exactly one review by that user,
\* numOfReviews counts its reviews and ratings is their mean.
C9_SecondReviewRejected ==
  [][ \A r \in ReqIds, q \in ReqIds :
        (Answers(r) /\ SecondCall(r, q))
        => /\ reqs'[r].status = 400
           /\ reqs'[r].message = "Product already reviewed"
           /\ db' = db
           /\ ~overlap =>
                LET product == db'[reqs[r].id] IN
                /\ ReviewsBy(product.reviews, reqs[r].user) = 1
                /\ product.numOfReviews = Len(product.reviews)
                /\ product.ratings =
                     Quotient(SumRatings(product.reviews), Len(product.reviews)) ]_vars

\* C9's case: two requests in sequence by one user and no other request; the
\* first was answered 201, the second 400, and the product holds the one
\* review.
C9_Witness ==
  /\ ~overlap
  /\ Responded(1, 201)
  /\ Responded(2, 400)
  /\ reqs[2].message = "Product already reviewed"
  /\ 1 \in reqs[2].after
  /\ reqs[1].user = reqs[2].user
  /\ reqs[3].pc = "idle"
  /\ Len(db["p1"].reviews) = 1
  /\ db["p1"].numOfReviews = 1
  /\ db["p1"].ratings = Quotient(db["p1"].reviews[1].rating, 1)

\* C10: in every reachable state, under any interleaving of review requests,
\* a product holds at most one review per user.
C10_OneReviewPerUser ==
  \A id \in DOMAIN db : \A u \in Users : ReviewsBy(db[id].reviews, u) <= 1

\* C11: after every successful addReview, also when requests of different
\* users on one product interleave, the stored product's numOfReviews is the
\* number of its reviews and its ratings is the mean of their ratings.
C11_CountAndMeanOfAllReviews ==
  \A id \in DOMAIN db :
    (\A u \in Users : ReviewsBy(db[id].reviews, u) <= 1)
    => /\ db[id].numOfReviews = Len(db[id].reviews)
       /\ db[id].ratings =
            Quotient(SumRatings(db[id].reviews), Len(db[id].reviews))

\* No two lines of its have the same product id.
OneLinePerId(its) ==
  \A i \in 1 .. Len(its) : \A j \in 1 .. Len(its) :
    its[i]._id = its[j]._id => i = j

\* C15: from the empty cart, under addToCart, removeFromCart, updateQuantity
\* and clearCart, the cart holds at most one line per product id; addToCart of
\* a product that has a line adds the quantity to that line and inserts no
\* line; the lines that stay keep their order and a new line goes last.
C15_OneLinePerProduct ==
  [][ /\ OneLinePerId(items')
      /\ (last'.op = "addToCart" /\ HasLine(items, last'.id))
         => LET i == FindIndex(items, last'.id) IN
            /\ Len(items') = Len(items)
            /\ items'[i] = [items[i] EXCEPT !.quantity = items[i].quantity + last'.qty]
            /\ \A j \in 1 .. Len(items) : j # i => items'[j] = items[j]
      /\ \A i \in 1 .. Len(items') : \A j \in 1 .. Len(items') :
           (i < j /\ HasLine(items, items'[i]._id) /\ HasLine(items, items'[j]._id))
           => FindIndex(items, items'[i]._id) < FindIndex(items, items'[j]._id)
      /\ \A i \in 1 .. Len(items') :
           ~HasLine(items, items'[i]._id) => i = Len(items') ]_vars

\* C15's case: a second addToCart of the product of the first of two lines
\* has raised that line's quantity to 2, and the cart still has two lines.
C15_Witness ==
  /\ last.op = "addToCart"
  /\ last.qty = 1
  /\ Len(items) = 2
  /\ items[1]._id = last.id
  /\ items[1].quantity = 2
  /\ items[2]._id # last.id

\* C12: reviews are append-only under addReview and authorized PUT requests:
\* in every step that keeps the product, each of its reviews stays where it
\* was, unmodified, and ratings or numOfReviews change only in a step that
\* appends one review.
C12_ReviewsAppendOnly ==
  [][ \A id \in DOMAIN db \cap DOMAIN db' :
        /\ Len(db'[id].reviews) >= Len(db[id].reviews)
        /\ \A i \in 1 .. Len(db[id].reviews) : db'[id].reviews[i] = db[id].reviews[i]
        /\ (db'[id].ratings # db[id].ratings \/ db'[id].numOfReviews # db[id].numOfReviews)
           => Len(db'[id].reviews) = Len(db[id].reviews) + 1 ]_vars

\* The caller is an admin or the user the document names as its owner.
AdminOrOwner(caller, owner) == caller.role = "admin" \/ caller.id = owner

\* Call c's findById resolves in this step.
Finds(c) == calls[c].pc = "idle" /\ calls'[c].pc # "idle"

\* Call c is answered in this step, after its findById found the product.
AnswersCall(c) == calls[c].pc = "found" /\ calls'[c].pc = "done"

\* C13: a PUT or DELETE for a missing product is answered 404; one by a caller
\* who is neither an admin nor the owner of the product found is answered 401;
\* both leave the collection as it was; and the collection is updated or the
\* product removed only in the step that answers 200 to an admin or the owner.
C13_OwnerOrAdminOnly ==
  [][ /\ \A c \in CallIds :
           /\ Finds(c) =>
                /\ db' = db
                /\ calls'[c].id \notin DOMAIN db
                   <=> (calls'[c].pc = "done" /\ calls'[c].status = 404)
           /\ (AnswersCall(c) /\ ~AdminOrOwner(calls[c].caller, calls[c].owner))
              => (calls'[c].status = 401 /\ db' = db)
      /\ (db' # db /\ reqs' = reqs)
         => \E c \in CallIds :
              /\ AnswersCall(c)
              /\ AdminOrOwner(calls[c].caller, calls[c].owner)
              /\ calls'[c].status = 200 ]_vars

\* C13's case: a PUT for the product was answered 401, a request for a
\* missing product 404, and the product is as it was created.
C13_Witness ==
  /\ calls[1] = Answer("put", "p1", 401)
  /\ calls[2].pc = "done"
  /\ calls[2].status = 404
  /\ "p1" \in DOMAIN db
  /\ db["p1"].price = NewProduct.price
  /\ db["p1"].user = NewProduct.user

\* No order thunk is between its dispatch and its reducer.
NoneInFlight == \A r \in OrderReqIds : orderReqs[r].pc \in {"idle", "done"}

\* C14: once no order request is in flight, every copy of an order the client
\* holds, in orders and in currentOrder, has the status the order service
\* stores for that order.
C14_ClientStatusIsServerStatus ==
  NoneInFlight =>
    /\ \A i \in 1 .. Len(order.orders) :
         /\ HasOrder(order.orders[i]._id)
         /\ order.orders[i].status = StoredOrder(order.orders[i]._id).status
    /\ order.currentOrder # NoOrder =>
         /\ HasOrder(order.currentOrder[1]._id)
         /\ order.currentOrder[1].status = StoredOrder(order.currentOrder[1]._id).status

\* C16: the client's orders list never holds two entries with the same _id.
C16_DistinctOrderIds ==
  \A i, j \in 1 .. Len(order.orders) :
    order.orders[i]._id = order.orders[j]._id => i = j
====
